---- MODULE Spec2Model ----
(***************************************************************************)
(* Model of crates/mako/src/generate/chunk.rs: the Chunk type, its member  *)
(* set (an insertion-ordered IndexSet of module ids), its output filename  *)
(* and its content hash.                                                   *)
(*                                                                         *)
(* A Rust String is modelled as a sequence of one-character strings, so    *)
(* that splitting, replacing and joining are computed character by         *)
(* character.                                                              *)
(***************************************************************************)
EXTENDS Integers, Sequences, FiniteSets, TLC

VARIABLES
    chunks,     \* the Chunks of the scenario, each with its id, chunk_type,
                \* modules, content and source_map
    ret,        \* the last call: [op, this, arg, value], this the chunk called
    pre,        \* history: the chunks as they were when the last call was made
    clock,      \* history: number of add_module / remove_module calls so far
    lastAdd     \* history: per chunk and module, the clock of the module's latest
                \* add_module call, 0 if it was never added or was removed since

vars == <<chunks, ret, pre, clock, lastAdd>>

----------------------------------------------------------------------------
(* Bounds                                                                  *)

\* add_module / remove_module calls in one behaviour
MaxOps == 4
\* length of the generated logical paths of a chunk id
MaxPathLen == 3
\* length of the generated query texts of a chunk id
MaxQueryLen == 3

----------------------------------------------------------------------------
(* Strings                                                                 *)

\* byte value of the characters that occur in ids (String's Ord is bytewise)
Ascii ==
    [c \in {"&", ".", "/", "1", "2", "=", "?", "@", "_", "j",
            "a", "b", "c", "f", "o", "r", "s", "t", "x"} |->
        CASE c = "&" -> 38  [] c = "." -> 46  [] c = "/" -> 47
          [] c = "1" -> 49  [] c = "2" -> 50  [] c = "=" -> 61
          [] c = "?" -> 63  [] c = "@" -> 64  [] c = "_" -> 95
          [] c = "a" -> 97  [] c = "b" -> 98  [] c = "c" -> 99
          [] c = "f" -> 102 [] c = "j" -> 106 [] c = "o" -> 111 [] c = "r" -> 114
          [] c = "s" -> 115 [] c = "t" -> 116 [] c = "x" -> 120]

\* <String as Ord>::lt : lexicographic on bytes
RECURSIVE StrLess(_, _)
StrLess(s, t) ==
    IF t = <<>> THEN FALSE
    ELSE IF s = <<>> THEN TRUE
    ELSE IF Head(s) # Head(t) THEN Ascii[Head(s)] < Ascii[Head(t)]
    ELSE StrLess(Tail(s), Tail(t))

\* str::contains(char)
Contains(s, c) == \E i \in 1..Len(s) : s[i] = c

\* str::split(char), collected: always at least one part
RECURSIVE Split(_, _)
Split(s, c) ==
    IF ~Contains(s, c) THEN <<s>>
    ELSE LET i == CHOOSE k \in 1..Len(s) :
                      s[k] = c /\ \A j \in 1..(k - 1) : s[j] # c
         IN  <<SubSeq(s, 1, i - 1)>> \o Split(SubSeq(s, i + 1, Len(s)), c)

\* [String]::join(sep)
RECURSIVE Join(_, _)
Join(parts, sep) ==
    IF parts = <<>> THEN <<>>
    ELSE IF Len(parts) = 1 THEN parts[1]
    ELSE parts[1] \o sep \o Join(Tail(parts), sep)

\* str::replace(['.', '?'], "_")
ReplaceDotQuestion(s) ==
    [i \in 1..Len(s) |-> IF s[i] \in {".", "?"} THEN "_" ELSE s[i]]

----------------------------------------------------------------------------
(* IndexSet<ModuleId>: a sequence without repetitions, 0-based indices     *)

IndexOf(s, v) == CHOOSE i \in 1..Len(s) : s[i] = v

contains(s, v) == \E i \in 1..Len(s) : s[i] = v

\* IndexSet::insert_full: (index, true) and appended if new,
\* (index of the equal element, false) and untouched if present
insert_full(s, v) ==
    IF contains(s, v)
    THEN [set |-> s, pos |-> IndexOf(s, v) - 1, inserted |-> FALSE]
    ELSE [set |-> Append(s, v), pos |-> Len(s), inserted |-> TRUE]

\* IndexSet::insert
insert(s, v) == insert_full(s, v).set

\* IndexSet::shift_remove_index: removes the element at the index and
\* shifts the following ones down; nothing if the index is out of range
shift_remove_index(s, pos) ==
    IF pos < Len(s)
    THEN SubSeq(s, 1, pos) \o SubSeq(s, pos + 2, Len(s))
    ELSE s

\* IndexSet::shift_remove: removes the element if present, keeping order
shift_remove(s, v) ==
    IF contains(s, v) THEN shift_remove_index(s, IndexOf(s, v) - 1) ELSE s

----------------------------------------------------------------------------
(* Modules, module graph, chunk kinds                                      *)

ModuleId(s) == [id |-> s]

\* the module references of the scenario; "a.js" < "a/b.js" < "b.js" bytewise
Modules ==
    {ModuleId(<<"a", ".", "j", "s">>), ModuleId(<<"a", "/", "b", ".", "j", "s">>), ModuleId(<<"b", ".", "j", "s">>)}

\* the precomputed content hash (info.raw_hash) of each module
RawHash(m) ==
    CASE m = ModuleId(<<"a", ".", "j", "s">>) -> 42
      [] m = ModuleId(<<"a", "/", "b", ".", "j", "s">>) -> 99
      [] m = ModuleId(<<"b", ".", "j", "s">>) -> 17

\* what a module graph holds for a module reference: nothing, a module
\* whose info is None, or a module with its info
ModuleEntries(m) ==
    {[found |-> FALSE, has_info |-> FALSE, raw_hash |-> 0],
     [found |-> TRUE, has_info |-> FALSE, raw_hash |-> 0],
     [found |-> TRUE, has_info |-> TRUE, raw_hash |-> RawHash(m)]}

ModuleGraphs == {mg \in [Modules -> UNION {ModuleEntries(m) : m \in Modules}] :
                    \A m \in Modules : mg[m] \in ModuleEntries(m)}

Runtime == [tag |-> "Runtime"]
Entry(m, name, shared) == [tag |-> "Entry", module |-> m, name |-> name, shared |-> shared]
Async == [tag |-> "Async"]
Sync == [tag |-> "Sync"]
Worker(m) == [tag |-> "Worker", module |-> m]

----------------------------------------------------------------------------
(* impl Chunk                                                              *)

\* Chunk::new
New(id, chunk_type) ==
    [modules |-> <<>>, id |-> id, chunk_type |-> chunk_type,
     content |-> "None", source_map |-> "None"]

\* add_module as a plain push, without the IndexSet's uniqueness
add_module_push(c, module_id) ==
    [c EXCEPT !.modules = Append(@, module_id)]

\* IndexSet::swap_remove_index: the last element takes the removed one's place
swap_remove_index(s, pos) ==
    IF pos < Len(s)
    THEN IF pos + 1 = Len(s) THEN SubSeq(s, 1, pos)
         ELSE [SubSeq(s, 1, Len(s) - 1) EXCEPT ![pos + 1] = s[Len(s)]]
    ELSE s

\* add_module moving an existing member with swap_remove_index
add_module_swap(c, module_id) ==
    LET r == insert_full(c.modules, module_id) IN
    IF ~r.inserted
    THEN [c EXCEPT !.modules = insert(swap_remove_index(r.set, r.pos), module_id)]
    ELSE [c EXCEPT !.modules = r.set]

\* remove_module with IndexSet::swap_remove
remove_module_swap(c, module_id) ==
    [c EXCEPT !.modules =
        IF contains(@, module_id)
        THEN swap_remove_index(@, IndexOf(@, module_id) - 1)
        ELSE @]

\* Chunk::add_module: the chunk after the call
add_module(c, module_id) ==
    LET r == insert_full(c.modules, module_id) IN
    IF ~r.inserted
    THEN \* module already exists, move it to the back
         [c EXCEPT !.modules = insert(shift_remove_index(r.set, r.pos), module_id)]
    ELSE [c EXCEPT !.modules = r.set]

\* Chunk::remove_module: the chunk after the call
remove_module(c, module_id) ==
    [c EXCEPT !.modules = shift_remove(c.modules, module_id)]

\* Chunk::has_module
has_module(c, module_id) == contains(c.modules, module_id)

\* Vec::sort_by_key(|m| m.id.clone()): a stable sort, here by insertion
RECURSIVE InsertByKey(_, _)
InsertByKey(sorted, m) ==
    IF sorted = <<>> THEN <<m>>
    ELSE IF StrLess(m.id, Head(sorted).id) THEN <<m>> \o sorted
    ELSE <<Head(sorted)>> \o InsertByKey(Tail(sorted), m)

RECURSIVE sort_by_key(_)
sort_by_key(s) ==
    IF s = <<>> THEN <<>>
    ELSE InsertByKey(sort_by_key(SubSeq(s, 1, Len(s) - 1)), s[Len(s)])

\* the character U+0060, which a TLA+ string cannot hold
Backquote == "U+0060"

\* the panic message of Option::unwrap on None
UnwrapNone ==
    <<"c", "a", "l", "l", "e", "d", " ", Backquote, "O", "p", "t", "i", "o", "n", ":", ":", "u", "n", "w", "r", "a", "p", "(", ")", Backquote, " ", "o", "n", " ", "a", " ", Backquote, "N", "o", "n", "e", Backquote, " ", "v", "a", "l", "u", "e">>

Panic(msg) == [panic |-> TRUE, message |-> msg]
Returned(v) == [panic |-> FALSE, value |-> v]

\* XxHash64 (twox_hash) is not part of the repository. Its result is a
\* function of the words written, in order; the model keeps exactly that:
\* the hasher state is the sequence of words, and finish() is the
\* collision-free digest of it. Two equal digests here are equal in the
\* program.
XxHash64Default == <<>>
write_u64(hasher, word) == Append(hasher, word)
finish(hasher) == [xxh64 |-> hasher]

\* the loop of Chunk::hash over the sorted ids
RECURSIVE HashLoop(_, _, _)
HashLoop(ids, mg, hasher) ==
    IF ids = <<>> THEN Returned(finish(hasher))
    ELSE LET m == mg[Head(ids)] IN
         IF ~m.found THEN Panic(UnwrapNone)
         ELSE IF ~m.has_info THEN Panic(UnwrapNone)
         ELSE HashLoop(Tail(ids), mg, write_u64(hasher, m.raw_hash))

\* Chunk::hash iterating the members in insertion order
unsorted_module_ids(c) == c.modules

\* the ids Chunk::hash iterates over
sorted_module_ids(c) == sort_by_key(c.modules)

\* Chunk::hash
hash(c, mg) == HashLoop(sorted_module_ids(c), mg, XxHash64Default)

----------------------------------------------------------------------------
(* parse_path and Chunk::filename                                          *)

\* the loop of parse_path over the pairs of the query
RECURSIVE ParsePairs(_)
ParsePairs(pairs) ==
    IF pairs = <<>> THEN <<>>
    ELSE LET pair == Head(pairs)
             it == Split(pair, "=")      \* .take(2) reads it[1], it[2] only
         IN  IF Contains(pair, "=")
             THEN IF Len(it) >= 2
                  THEN <<[k |-> it[1], v |-> it[2]]>> \o ParsePairs(Tail(pairs))
                  ELSE ParsePairs(Tail(pairs))
             ELSE IF pair # <<>>
                  THEN <<[k |-> pair, v |-> <<>>]>> \o ParsePairs(Tail(pairs))
                  ELSE ParsePairs(Tail(pairs))

\* parse_path: always Ok(FileRequest)
parse_path(path) ==
    LET iter == Split(path, "?")
        query == IF Len(iter) >= 2 THEN iter[2] ELSE <<>>
    IN  [path |-> iter[1], query |-> ParsePairs(Split(query, "&"))]

\* the query of Chunk::filename: "k=v" pairs joined by "&"
QueryString(query) ==
    Join([i \in DOMAIN query |-> query[i].k \o <<"=">> \o query[i].v], <<"&">>)

\* std::path::Path::components on a path with "/" separators and no prefix:
\* RootDir for a leading "/", CurDir for a leading "." segment only, empty
\* and other "." segments normalised away, ".." is ParentDir. (The ids of
\* the model hold neither "\" nor ":", so the Windows build, where alone a
\* Prefix occurs, yields the same components.)
RECURSIVE ComponentsFrom(_, _, _)
ComponentsFrom(segs, i, has_root) ==
    IF i > Len(segs) THEN <<>>
    ELSE LET seg == segs[i]
             rest == ComponentsFrom(segs, i + 1, has_root)
         IN  IF seg = <<>> THEN rest
             ELSE IF seg = <<".">>
                  THEN IF i = 1 /\ ~has_root
                       THEN <<[kind |-> "CurDir", seg |-> seg]>> \o rest
                       ELSE rest
             ELSE IF seg = <<".", ".">>
                  THEN <<[kind |-> "ParentDir", seg |-> seg]>> \o rest
             ELSE <<[kind |-> "Normal", seg |-> seg]>> \o rest

components(path) ==
    LET has_root == path # <<>> /\ path[1] = "/" IN
    (IF has_root THEN <<[kind |-> "RootDir", seg |-> <<"/">>]>> ELSE <<>>)
        \o ComponentsFrom(Split(path, "/"), 1, has_root)

\* a filter that drops RootDir only
NotRootDir(c) == c.kind # "RootDir"

NotRootOrCurDir(c) == c.kind \notin {"RootDir", "CurDir"}

\* .filter(|c| !matches!(c, Component::RootDir | Component::CurDir))
RECURSIVE FilterComponents(_)
FilterComponents(s) ==
    IF s = <<>> THEN <<>>
    ELSE (IF NotRootOrCurDir(Head(s)) THEN <<Head(s)>> ELSE <<>>)
             \o FilterComponents(Tail(s))

\* the closure mapping a component to its part of the name
ComponentName(c) ==
    CASE c.kind = "ParentDir" -> <<"@">>
      [] c.kind = "Prefix" -> <<"@">>
      [] c.kind = "RootDir" -> <<>>
      [] c.kind = "CurDir" -> <<>>
      [] c.kind = "Normal" -> ReplaceDotQuestion(c.seg)

\* the alphabet of base64 URL_SAFE
UrlSafeAlphabet ==
    <<"A", "B", "C", "D", "E", "F", "G", "H", "I", "J", "K", "L", "M",
      "N", "O", "P", "Q", "R", "S", "T", "U", "V", "W", "X", "Y", "Z",
      "a", "b", "c", "d", "e", "f", "g", "h", "i", "j", "k", "l", "m",
      "n", "o", "p", "q", "r", "s", "t", "u", "v", "w", "x", "y", "z",
      "0", "1", "2", "3", "4", "5", "6", "7", "8", "9", "-", "_">>

CharRank(c) == Cardinality({d \in DOMAIN Ascii : Ascii[d] < Ascii[c]}) + 1

\* md5 and base64 are not part of the repository. The first 4 characters of
\* the URL_SAFE encoding of a digest are 24 bits of it, as 4 characters of
\* UrlSafeAlphabet; the model takes for these 24 bits the text read as a
\* number in base (number of characters + 1), modulo 2^24, which tells any
\* two texts of at most 5 characters apart.
RECURSIVE Digest24(_, _)
Digest24(text, acc) ==
    IF text = <<>> THEN acc
    ELSE Digest24(Tail(text),
                  (acc * (Cardinality(DOMAIN Ascii) + 1) + CharRank(Head(text)))
                      % 16777216)

\* general_purpose::URL_SAFE.encode(md5::compute(query).0)[..4]
QueryHash(query) ==
    LET n == Digest24(query, 0) IN
    <<UrlSafeAlphabet[((n \div 262144) % 64) + 1],
      UrlSafeAlphabet[((n \div 4096) % 64) + 1],
      UrlSafeAlphabet[((n \div 64) % 64) + 1],
      UrlSafeAlphabet[(n % 64) + 1]>>

\* the name of an Async / Sync / Worker chunk before the kind suffix
PathName(id) ==
    LET parsed_id == parse_path(id)
        query == QueryString(parsed_id.query)
        kept == FilterComponents(components(parsed_id.path))
        name == Join([i \in DOMAIN kept |-> ComponentName(kept[i])], <<"_">>)
    IN  IF query # <<>>
        THEN name \o <<"_", "q", "_">> \o QueryHash(query)
        ELSE name

\* filename deriving the name of an Entry chunk from its id, like the others
filename_entry_by_path(c) ==
    CASE c.chunk_type.tag = "Runtime" -> <<"r", "u", "n", "t", "i", "m", "e", ".", "j", "s">>
      [] c.chunk_type.tag = "Entry" -> PathName(c.id.id) \o <<".", "j", "s">>
      [] OTHER -> PathName(c.id.id) \o <<"-">>
                \o (IF c.chunk_type.tag = "Worker"
                    THEN <<"w", "o", "r", "k", "e", "r">>
                    ELSE <<"a", "s", "y", "n", "c">>)
                \o <<".", "j", "s">>

\* Chunk::filename
filename(c) ==
    CASE c.chunk_type.tag = "Runtime" -> <<"r", "u", "n", "t", "i", "m", "e", ".", "j", "s">>
      [] c.chunk_type.tag = "Entry" -> c.chunk_type.name \o <<".", "j", "s">>
      [] c.chunk_type.tag \in {"Async", "Sync", "Worker"} ->
            PathName(c.id.id) \o <<"-">>
                \o (IF c.chunk_type.tag = "Worker"
                    THEN <<"w", "o", "r", "k", "e", "r">>
                    ELSE <<"a", "s", "y", "n", "c">>)
                \o <<".", "j", "s">>

----------------------------------------------------------------------------
(* Inputs                                                                  *)

\* all strings of at most n characters of cs
Strings(cs, n) == UNION {[1..k -> cs] : k \in 0..n}

\* the ids of tests::test_filename, and one that climbs and has a query
TestIds ==
    {ModuleId(<<"f", "o", "o", "/", "b", "a", "r", ".", "t", "s", "x">>),
     ModuleId(<<".", "/", "f", "o", "o", "/", "b", "a", "r", ".", "t", "s", "x">>),
     ModuleId(<<".", ".", "/", "a", "?", "a", "=", "1">>)}

\* the chunk ids of the membership scenario
MemberIds ==
    {ModuleId(<<"f", "o", "o", "/", "b", "a", "r", ".", "t", "s", "x">>),
     ModuleId(<<".", ".", "/", "a", "?", "a", "=", "1">>)}

\* the chunk kinds of the membership scenario
TestTypes ==
    {Runtime, Async, Worker(ModuleId(<<"f", "o", "o", "/", "b", "a", "r", ".", "t", "s", "x">>))}
    \cup {Entry(m, n, sh) : m \in {ModuleId(<<"f", "o", "o", "/", "b", "a", "r", ".", "t", "s", "x">>), ModuleId(<<"a", ".", "j", "s">>)},
                            n \in {<<"f", "o", "o", "_", "b", "a", "r">>, <<"a", ".", "b">>},
                            sh \in BOOLEAN}

PathChars == {"a", ".", "/"}
QueryChars == {"a", "1", "=", "&", "?"}

\* logical paths, and what follows them: nothing, or "?" and a query text
Paths == Strings(PathChars, MaxPathLen)
QuerySuffixes == {<<>>} \cup {<<"?">> \o q : q \in Strings(QueryChars, MaxQueryLen)}

GeneratedIds == {ModuleId(p \o q) : p \in Paths, q \in QuerySuffixes}

\* the characters of a query value of the chunk pairs
ValueChars == {"1", "2", "="}

\* the logical paths of the chunk pairs
PairPaths == {<<"a">>, <<".", ".", "/", "a", ".", "b">>}

\* the chunk kinds of the filename scenario
GeneratedTypes ==
    {Runtime, Async, Sync, Worker(ModuleId(<<"a", ".", "j", "s">>))}
    \cup {Entry(ModuleId(<<"a", ".", "j", "s">>), n, FALSE) : n \in {<<"f", "o", "o", "_", "b", "a", "r">>, <<"a", ".", "b">>, <<>>}}

----------------------------------------------------------------------------
(* The state machine: the chunks of a scenario, and the calls made on them *)

Unit == "()"

\* the chunk the last call was made on, now and when the call was made
chunk == chunks[ret.this]
before == pre[ret.this]

InitWith(cs) ==
    /\ chunks = cs
    /\ pre = chunks
    /\ ret = [op |-> "new", this |-> Len(cs), arg |-> Unit, value |-> Unit]
    /\ clock = 0
    /\ lastAdd = [i \in DOMAIN cs |-> [m \in Modules |-> 0]]

\* one chunk, on which every operation is called
Init == \E id \in MemberIds, t \in TestTypes : InitWith(<<New(id, t)>>)

\* one chunk of any id and kind, whose filename is asked
InitFilename ==
    \E id \in GeneratedIds \cup TestIds, t \in GeneratedTypes :
        InitWith(<<New(id, t)>>)

\* two chunks of the same kind over the same logical path, whose queries
\* give the parameter "a" two different values
InitQueryPair ==
    \E p \in PairPaths, t \in {Async, Sync, Worker(ModuleId(<<"a", ".", "j", "s">>))} :
        \E v1, v2 \in Strings(ValueChars, MaxQueryLen) :
            /\ v1 # v2
            /\ InitWith(<<New(ModuleId(p \o <<"?", "a", "=">> \o v1), t),
                          New(ModuleId(p \o <<"?", "a", "=">> \o v2), t)>>)

AddModule(i, m) ==
    /\ clock < MaxOps
    /\ chunks' = [chunks EXCEPT ![i] = add_module(@, m)]
    /\ pre' = chunks
    /\ ret' = [op |-> "add_module", this |-> i, arg |-> m, value |-> Unit]
    /\ clock' = clock + 1
    /\ lastAdd' = [lastAdd EXCEPT ![i][m] = clock + 1]

RemoveModule(i, m) ==
    /\ clock < MaxOps
    /\ chunks' = [chunks EXCEPT ![i] = remove_module(@, m)]
    /\ pre' = chunks
    /\ ret' = [op |-> "remove_module", this |-> i, arg |-> m, value |-> Unit]
    /\ clock' = clock + 1
    /\ lastAdd' = [lastAdd EXCEPT ![i][m] = 0]

HasModule(i, m) ==
    /\ ret' = [op |-> "has_module", this |-> i, arg |-> m,
               value |-> has_module(chunks[i], m)]
    /\ pre' = chunks
    /\ UNCHANGED <<chunks, clock, lastAdd>>

Filename(i) ==
    /\ ret' = [op |-> "filename", this |-> i, arg |-> Unit,
               value |-> filename(chunks[i])]
    /\ pre' = chunks
    /\ UNCHANGED <<chunks, clock, lastAdd>>

\* hash sorting the member set in place instead of a copy of it
HashSortingInPlace(i) ==
    /\ \E mg \in ModuleGraphs :
           ret' = [op |-> "hash", this |-> i, arg |-> mg,
                   value |-> hash(chunks[i], mg)]
    /\ chunks' = [chunks EXCEPT ![i].modules = sort_by_key(@)]
    /\ pre' = chunks
    /\ UNCHANGED <<clock, lastAdd>>

Hash(i) ==
    /\ \E mg \in ModuleGraphs :
           ret' = [op |-> "hash", this |-> i, arg |-> mg,
                   value |-> hash(chunks[i], mg)]
    /\ pre' = chunks
    /\ UNCHANGED <<chunks, clock, lastAdd>>

Next ==
    \/ \E i \in DOMAIN chunks, m \in Modules : AddModule(i, m)
    \/ \E i \in DOMAIN chunks, m \in Modules : RemoveModule(i, m)
    \/ \E i \in DOMAIN chunks, m \in Modules : HasModule(i, m)
    \/ \E i \in DOMAIN chunks : Filename(i)
    \/ \E i \in DOMAIN chunks : Hash(i)

Spec == Init /\ [][Next]_vars

NextFilename == \E i \in DOMAIN chunks : Filename(i)

SpecFilename == InitFilename /\ [][NextFilename]_vars

SpecQueryPair == InitQueryPair /\ [][NextFilename]_vars

----------------------------------------------------------------------------
(* Properties of the member set                                            *)

Range(s) == {s[i] : i \in DOMAIN s}

NoDuplicates(s) == \A i, j \in DOMAIN s : s[i] = s[j] => i = j

\* s with every occurrence of v left out
RECURSIVE Without(_, _)
Without(s, v) ==
    IF s = <<>> THEN <<>>
    ELSE (IF Head(s) = v THEN <<>> ELSE <<Head(s)>>) \o Without(Tail(s), v)

\* C1: the member collection never holds a module reference twice; an
\* add_module of a member leaves the number of members unchanged, an
\* add_module of a non-member increases it by exactly one.
NoDuplicateMembers ==
    /\ NoDuplicates(chunk.modules)
    /\ ret.op = "add_module" =>
          Len(chunk.modules) =
              Len(before.modules) + (IF ret.arg \in Range(before.modules) THEN 0 ELSE 1)

\* add_module(m) was called on a chunk of three members whose first was m
ReAddedFirstOfThree ==
    /\ ret.op = "add_module"
    /\ Len(before.modules) = 3
    /\ before.modules[1] = ret.arg

\* the modules whose latest call was an add, in the order of these adds
RECURSIVE AddedSince(_)
AddedSince(t) ==
    IF t > clock THEN <<>>
    ELSE (IF \E m \in Modules : lastAdd[ret.this][m] = t
          THEN <<CHOOSE m \in Modules : lastAdd[ret.this][m] = t>>
          ELSE <<>>) \o AddedSince(t + 1)

\* C2: after add_module(m), m is the last member and the other members keep
\* their relative order; the members are always the modules whose most
\* recent operation was an add, in the order of their most recent add.
MostRecentAddOrder ==
    /\ ret.op = "add_module" =>
          /\ chunk.modules # <<>>
          /\ chunk.modules[Len(chunk.modules)] = ret.arg
          /\ Without(chunk.modules, ret.arg) = Without(before.modules, ret.arg)
    /\ chunk.modules = AddedSince(1)

\* add_module(m) moved m from the front of three members to the back
MovedFirstToBack ==
    /\ ret.op = "add_module"
    /\ Len(before.modules) = 3
    /\ before.modules[1] = ret.arg
    /\ chunk.modules[3] = ret.arg
    /\ chunk.modules[1] = before.modules[2]

\* C8: remove_module(m) of a non-member changes nothing; of a member it
\* removes exactly m, has_module(m) is false afterwards, and the other
\* members stay, in the same relative order.
RemoveModuleFrame ==
    ret.op = "remove_module" =>
        /\ ret.arg \notin Range(before.modules) => chunk.modules = before.modules
        /\ ret.arg \in Range(before.modules) =>
              /\ ~has_module(chunk, ret.arg)
              /\ Range(chunk.modules) = Range(before.modules) \ {ret.arg}
              /\ chunk.modules = Without(before.modules, ret.arg)
        /\ ret.value = Unit

\* remove_module(m) took the first of three members out
RemovedFirstOfThree ==
    /\ ret.op = "remove_module"
    /\ Len(before.modules) = 3
    /\ before.modules[1] = ret.arg
    /\ Len(chunk.modules) = 2

----------------------------------------------------------------------------
(* Properties of hash                                                      *)

\* the chunks that hold the same member set as c, in any insertion order
SameMembers(c) ==
    {[c EXCEPT !.modules = s] :
        s \in {t \in [1..Len(c.modules) -> Range(c.modules)] : NoDuplicates(t)}}

\* C3: hash() depends on the member set only: every chunk holding the same
\* set of module references, in whatever order they were added, gets the
\* same result against the same module graph.
HashIgnoresInsertionOrder ==
    ret.op = "hash" =>
        \A c \in SameMembers(chunk) : hash(c, ret.arg) = ret.value

\* hash() returned a value for three members added out of sorted order
HashedUnsortedMembers ==
    /\ ret.op = "hash"
    /\ ~ret.value.panic
    /\ Len(chunk.modules) = 3
    /\ StrLess(chunk.modules[2].id, chunk.modules[1].id)

\* the members hash() cannot look up, or whose info is None
Offending(c, mg) ==
    {m \in Range(c.modules) : ~mg[m].found \/ ~mg[m].has_info}

\* needle occurs in text
IsInfix(needle, text) ==
    \E i \in 0..(Len(text) - Len(needle)) :
        SubSeq(text, i + 1, i + Len(needle)) = needle

\* hash() returns no value when a member is absent from the module graph or
\* has no content hash, wherever that member stands
HashAbortsOnOffendingMember ==
    ret.op = "hash" =>
        (ret.value.panic <=> Offending(chunk, ret.arg) # {})

\* C6: hash() aborts when a member is absent from the module graph or has
\* no content hash, and the abort's diagnostic identifies an offending
\* module reference.
HashAbortNamesOffendingModule ==
    ret.op = "hash" /\ Offending(chunk, ret.arg) # {} =>
        /\ ret.value.panic
        /\ \E m \in Offending(chunk, ret.arg) : IsInfix(m.id, ret.value.message)

----------------------------------------------------------------------------
(* Frame of the operations                                                 *)

\* C10: filename() and hash() change nothing in the chunk, add_module and
\* remove_module change the member set only, and no call changes what
\* filename() returns or, the members being the same, what hash() returns.
CallsKeepTheirFrame ==
    /\ ret.op \in {"filename", "hash", "has_module"} => chunks = pre
    /\ ret.op \in {"add_module", "remove_module"} =>
          chunks = [pre EXCEPT ![ret.this].modules = chunk.modules]
    /\ filename(chunk) = filename(before)
    /\ ret.op = "filename" => ret.value = filename(New(chunk.id, chunk.chunk_type))
    /\ ret.op = "hash" => ret.value = hash(chunk, ret.arg)

\* hash() was called on members that are not in sorted order
HashCalledOnUnsortedMembers ==
    /\ ret.op = "hash"
    /\ Len(chunk.modules) >= 2
    /\ StrLess(chunk.modules[2].id, chunk.modules[1].id)

----------------------------------------------------------------------------
(* Properties of filename                                                  *)

IsPathKind(c) == c.chunk_type.tag \in {"Async", "Sync", "Worker"}

\* the text of s before its first c
RECURSIVE Before(_, _)
Before(s, c) ==
    IF s = <<>> \/ Head(s) = c THEN <<>>
    ELSE <<Head(s)>> \o Before(Tail(s), c)

\* the text of s after its first c, empty if s has no c
RECURSIVE After(_, _)
After(s, c) ==
    IF s = <<>> THEN <<>>
    ELSE IF Head(s) = c THEN Tail(s)
    ELSE After(Tail(s), c)

\* the logical path of an id, and the query text that filename() reads
LogicalPath(id) == Before(id, "?")
QueryText(id) == Before(After(id, "?"), "?")

\* the id carries at least one query parameter
CarriesQueryParameter(id) == \E i \in DOMAIN QueryText(id) : QueryText(id)[i] # "&"

\* the segments of a path between its "/", read character by character
RECURSIVE Segments(_, _)
Segments(s, seg) ==
    IF s = <<>> THEN <<seg>>
    ELSE IF Head(s) = "/" THEN <<seg>> \o Segments(Tail(s), <<>>)
    ELSE Segments(Tail(s), Append(seg, Head(s)))

\* the reference derivation of the name: root and current-dir segments
\* dropped, a parent-dir segment is "@", "." inside a segment is "_"
RECURSIVE ReferenceParts(_)
ReferenceParts(segs) ==
    IF segs = <<>> THEN <<>>
    ELSE LET seg == Head(segs) IN
         (IF seg \in {<<>>, <<".">>} THEN <<>>
          ELSE IF seg = <<".", ".">> THEN << <<"@">> >>
          ELSE << [i \in DOMAIN seg |-> IF seg[i] = "." THEN "_" ELSE seg[i]] >>)
             \o ReferenceParts(Tail(segs))

RECURSIVE JoinWithUnderscore(_)
JoinWithUnderscore(parts) ==
    IF parts = <<>> THEN <<>>
    ELSE IF Tail(parts) = <<>> THEN Head(parts)
    ELSE Head(parts) \o <<"_">> \o JoinWithUnderscore(Tail(parts))

ReferenceName(id) ==
    JoinWithUnderscore(ReferenceParts(Segments(LogicalPath(id), <<>>)))

FilenameSafe ==
    {"a", "b", "c", "d", "e", "f", "g", "h", "i", "j", "k", "l", "m",
     "n", "o", "p", "q", "r", "s", "t", "u", "v", "w", "x", "y", "z",
     "A", "B", "C", "D", "E", "F", "G", "H", "I", "J", "K", "L", "M",
     "N", "O", "P", "Q", "R", "S", "T", "U", "V", "W", "X", "Y", "Z",
     "0", "1", "2", "3", "4", "5", "6", "7", "8", "9", "_", "-"}

\* C5: for every chunk kind and id, filename() holds only alphanumerics,
\* underscore and hyphen, plus exactly one dot, that of the extension.
FilenameCharset ==
    ret.op = "filename" =>
        /\ \A i \in DOMAIN ret.value : ret.value[i] \in FilenameSafe \cup {"."}
        /\ Cardinality({i \in DOMAIN ret.value : ret.value[i] = "."}) = 1

\* C4: two Async / Sync / Worker chunks of the same kind whose ids have the
\* same logical path and different query strings get different filenames.
DistinctQueriesDistinctFilenames ==
    ret.op = "filename" =>
        \A j \in DOMAIN chunks :
            /\ IsPathKind(chunk)
            /\ chunks[j].chunk_type = chunk.chunk_type
            /\ LogicalPath(chunks[j].id.id) = LogicalPath(chunk.id.id)
            /\ After(chunks[j].id.id, "?") # After(chunk.id.id, "?")
            => filename(chunks[j]) # ret.value

====
